---- MODULE Spec2Model ----
(***************************************************************************)
(* A model of pylib: acidfile.py (ACIDWriteFile, ACIDReadFile, ACIDDir)    *)
(* and rotlog.py (RotLog).                                                 *)
(*                                                                         *)
(* The file system is modelled as POSIX gives it to the code: a directory  *)
(* maps names to inodes, an open file object refers to its inode (not to   *)
(* the name it was opened under), rename() replaces its target, unlink()   *)
(* and rename() of a missing name raise ENOENT.  Every os.* call and every *)
(* open() of the code is one step of the model, so that the calls of       *)
(* several processes interleave as the kernel lets them.                   *)
(***************************************************************************)
EXTENDS Integers, Sequences, FiniteSets, TLC

(***************************************************************************)
(* Bounds                                                                  *)
(***************************************************************************)
\* bytes one ACIDWriteFile writes at most
MaxWrites == 2
\* handles constructed in one run at most
MaxOpens == 3
\* entries of a directory ACIDDir.glob is called on at most
MaxFiles == 3
\* RotLog constructions on one log, and messages, in a run of rotations
MaxRuns == 12
MaxRotEmits == 1
\* RotLog constructions in a run in which the process can die
MaxCrashRuns == 1
\* RotLog constructions, and messages, in a run of logging
MaxLogRuns == 3
MaxEmits == 3
\* the size-triggered sink: its size threshold and version count at most,
\* and the messages written to it in a run
MaxSize == 13
MaxVersions == 2
MaxSinkEmits == 4

(***************************************************************************)
(* Names.  A file name is a sequence of characters, so that the staging    *)
(* name '%s.%d.acid' and str.endswith('acid') are computed, not assumed.   *)
(***************************************************************************)
DigitChars == <<"0", "1", "2", "3", "4", "5", "6", "7", "8", "9">>

RECURSIVE FormatInt(_)
\* '%d' % n for n >= 0
FormatInt(n) ==
  IF n < 10 THEN <<DigitChars[n + 1]>>
  ELSE FormatInt(n \div 10) \o <<DigitChars[(n % 10) + 1]>>

AcidSuffix == <<"a", "c", "i", "d">>

\* a staging name that is the final name
tmpnameFinal(filename, pid) == filename
\* a staging name without the process id
tmpnameNoPid(filename, pid) == filename \o <<".">> \o AcidSuffix
\* '%s.%d.acid' % (filename, os.getpid())
tmpname(filename, pid) ==
  filename \o <<".">> \o FormatInt(pid) \o <<".">> \o AcidSuffix

\* str.endswith
endswith(s, suffix) ==
  /\ Len(s) >= Len(suffix)
  /\ SubSeq(s, Len(s) - Len(suffix) + 1, Len(s)) = suffix

\* os.getpid() of the processes of the model
Pids == {1, 2, 3}
\* the final paths the handles of the model are opened on
PathSeq == << <<"f">> >>
Paths == {PathSeq[k] : k \in 1..Len(PathSeq)}
StagingNames == {tmpname(p, q) : p \in Paths, q \in Pids}
AllNames == Paths \cup StagingNames

\* the handles (ACIDWriteFile / ACIDReadFile objects) of the model
Handles == {"h1", "h2"}
\* the bytes a write may carry; "o" is what a file holds before the run
Bytes == {"x", "y"}
OldContent == <<"o">>

Inodes == 1..(Cardinality(Paths) + Cardinality(Handles) + 1)

VARIABLES
  dir,     \* the directory: name -> inode, 0 when the name does not exist
  data,    \* inode -> content (a sequence of bytes)
  hd,      \* handle -> the object's fields and the position of its code
  pidOf,   \* handle -> os.getpid() of the process that owns it
  opens,   \* the number of handles constructed so far
  \* ACIDDir.glob on a directory listing
  listing, \* the names in the directory, in the order the file system lists them
  gdir,    \* ACIDDir._dir
  gmask,   \* the mask of the call
  gfiles,  \* what glob returned, NoResult before the call
  \* RotLog
  lfs,     \* the log directory: name -> file, NoFile when it does not exist
  rl,      \* the RotLog object: its fields and the position of its code
  con,     \* what the process wrote to sys.stdout and sys.stderr
  before,  \* the log directory when the last construction began
  runs,    \* the number of RotLog constructions so far
  emits,   \* the number of debug/info/warn/fatal calls so far
  cfg,     \* versions argument of the constructions, limits of the run
  \* the size-triggered sink
  sfs,     \* the sink's directory: version number (0 the live file) -> file
  sk       \* the sink: its configuration and the position of its code

acidVars == <<dir, data, hd, pidOf, opens>>
globVars == <<listing, gdir, gmask, gfiles>>
rotVars == <<lfs, rl, con, before, runs, emits, cfg>>
sinkVars == <<sfs, sk>>
vars == <<dir, data, hd, pidOf, opens, listing, gdir, gmask, gfiles,
          lfs, rl, con, before, runs, emits, cfg, sfs, sk>>

exists(name) == dir[name] # 0

Max(a, b) == IF a >= b THEN a ELSE b

\* a handle that has not been constructed
NewHandle ==
  [pc |-> "new", kind |-> "-", path |-> <<>>, ino |-> 0, buf |-> <<>>,
   off |-> 0, err |-> "none",
   \* history, read by the properties only
   wrote |-> <<>>, c0 |-> <<>>, lvl |-> 0]

\* the inodes a name or an open file object refers to
UsedInodes(d, h) ==
  {d[n] : n \in DOMAIN d} \cup {h[x].ino : x \in DOMAIN h}

\* the kernel frees an inode no name and no open file refers to
Collect(d, h, dt) ==
  [i \in Inodes |-> IF i \in UsedInodes(d, h) THEN dt[i] ELSE <<>>]

FreshInode == CHOOSE i \in Inodes : i \notin UsedInodes(dir, hd)

\* write(2) of bytes at offset off: overwrites, and pads a hole with 0
WriteAt(content, off, bytes) ==
  LET padded == IF off > Len(content)
                THEN content \o [k \in 1..(off - Len(content)) |-> 0]
                ELSE content
      tailFrom == off + Len(bytes) + 1
  IN SubSeq(padded, 1, off) \o bytes \o SubSeq(padded, tailFrom, Len(padded))

\* hd after handle h took a step that leaves it as rec: every other
\* constructed handle on the same path records that another handle acted
\* on its path (lvl 1), renamed its staging file back to the path (lvl 2) or
\* published what it wrote under the path (lvl 3)
Step(h, rec, level) ==
  [x \in DOMAIN hd |->
     IF x = h THEN rec
     ELSE IF hd[x].pc # "new" /\ hd[x].path = rec.path
          THEN [hd[x] EXCEPT !.lvl = Max(@, level)]
          ELSE hd[x]]

\* an os.* call or open() that raised: the constructor or __exit__ ends
Raise(h, e) ==
  [NewHandle EXCEPT !.pc = "failed", !.err = e, !.kind = hd[h].kind,
                    !.path = hd[h].path]

\* __exit__ returned: the handle is closed
Closed(h) ==
  [NewHandle EXCEPT !.pc = "closed", !.kind = hd[h].kind, !.path = hd[h].path]

(***************************************************************************)
(* ACIDWriteFile                                                           *)
(***************************************************************************)
\* __init__, up to the os.path.exists(filename) test
WExists(h, p) ==
  /\ hd[h].pc = "new"
  /\ opens < MaxOpens
  /\ opens' = opens + 1
  /\ hd' = Step(h, [NewHandle EXCEPT !.kind = "w", !.path = p,
                      !.pc = IF exists(p) THEN "w_unlink" ELSE "w_open"], 1)
  /\ UNCHANGED <<dir, data, pidOf>>

\* an open that leaves the old file in place
WUnlinkSkip(h) ==
  /\ hd[h].pc = "w_unlink"
  /\ hd' = Step(h, [hd[h] EXCEPT !.pc = "w_open"], 1)
  /\ UNCHANGED <<dir, data, pidOf, opens>>

\* os.unlink(filename)
WUnlink(h) ==
  /\ hd[h].pc = "w_unlink"
  /\ IF exists(hd[h].path)
     THEN /\ dir' = [dir EXCEPT ![hd[h].path] = 0]
          /\ hd' = Step(h, [hd[h] EXCEPT !.pc = "w_open"], 1)
     ELSE /\ dir' = dir
          /\ hd' = Step(h, Raise(h, "ENOENT"), 1)
  /\ data' = Collect(dir', hd', data)
  /\ UNCHANGED <<pidOf, opens>>

\* self._outfile = open(self._tmpname, 'wb'): creates, or truncates
WOpenTmp(h) ==
  /\ hd[h].pc = "w_open"
  /\ LET t == tmpname(hd[h].path, pidOf[h])
         i == IF exists(t) THEN dir[t] ELSE FreshInode
     IN /\ dir' = [dir EXCEPT ![t] = i]
        /\ hd' = Step(h, [hd[h] EXCEPT !.pc = "open", !.ino = i, !.off = 0], 1)
        /\ data' = Collect(dir', hd', [data EXCEPT ![i] = <<>>])
  /\ UNCHANGED <<pidOf, opens>>

\* write(stuff): into the file object's buffer.  A payload is smaller than
\* the buffer, so it reaches the inode when close() flushes it.
Write(h, b) ==
  /\ hd[h].pc = "open"
  /\ hd[h].kind = "w"
  /\ Len(hd[h].wrote) < MaxWrites
  /\ hd' = Step(h, [hd[h] EXCEPT !.buf = @ \o <<b>>, !.wrote = @ \o <<b>>], 1)
  /\ UNCHANGED <<dir, data, pidOf, opens>>

\* close() that forgets the buffered bytes
FlushedNot(h) == data[hd[h].ino]
\* close() flushes: the buffer reaches the inode at the file object's offset
Flushed(h) == WriteAt(data[hd[h].ino], hd[h].off, hd[h].buf)

\* __exit__: self._outfile.close()
WCloseFile(h) ==
  /\ hd[h].pc = "open"
  /\ hd[h].kind = "w"
  /\ hd' = Step(h, [hd[h] EXCEPT !.pc = "w_rename", !.buf = <<>>, !.ino = 0], 1)
  /\ data' = Collect(dir, hd', [data EXCEPT ![hd[h].ino] = Flushed(h)])
  /\ UNCHANGED <<dir, pidOf, opens>>

\* __exit__: os.rename(self._tmpname, self._filename)
WRename(h) ==
  /\ hd[h].pc = "w_rename"
  /\ LET t == tmpname(hd[h].path, pidOf[h])
     IN IF exists(t)
        THEN /\ dir' = IF t = hd[h].path THEN dir
                       ELSE [dir EXCEPT ![hd[h].path] = dir[t], ![t] = 0]
             /\ hd' = Step(h, Closed(h), 3)
        ELSE /\ dir' = dir
             /\ hd' = Step(h, Raise(h, "ENOENT"), 1)
  /\ data' = Collect(dir', hd', data)
  /\ UNCHANGED <<pidOf, opens>>

(***************************************************************************)
(* ACIDReadFile                                                            *)
(***************************************************************************)
\* __init__, up to the os.path.exists(filename) test
RExists(h, p) ==
  /\ hd[h].pc = "new"
  /\ opens < MaxOpens
  /\ opens' = opens + 1
  /\ hd' = Step(h, [NewHandle EXCEPT !.kind = "r", !.path = p,
                      !.pc = IF exists(p) THEN "r_rename" ELSE "r_force"], 1)
  /\ UNCHANGED <<dir, data, pidOf>>

\* open(filename, 'rb'), meant to raise: it raises when the file is still
\* missing, and returns a file object the code drops when it is not
RForce(h) ==
  /\ hd[h].pc = "r_force"
  /\ hd' = Step(h, IF exists(hd[h].path)
                   THEN [hd[h] EXCEPT !.pc = "r_rename"]
                   ELSE Raise(h, "ENOENT"), 1)
  /\ UNCHANGED <<dir, data, pidOf, opens>>

\* a copy in place of the rename: the source stays
RRenameCopy(h) ==
  /\ hd[h].pc = "r_rename"
  /\ LET t == tmpname(hd[h].path, pidOf[h])
     IN IF exists(hd[h].path)
        THEN /\ dir' = [dir EXCEPT ![t] = FreshInode]
             /\ hd' = Step(h, [hd[h] EXCEPT !.pc = "r_open",
                                 !.c0 = data[dir[hd[h].path]]], 1)
             /\ data' = Collect(dir', hd',
                           [data EXCEPT ![FreshInode] = data[dir[hd[h].path]]])
        ELSE /\ dir' = dir
             /\ hd' = Step(h, Raise(h, "ENOENT"), 1)
             /\ data' = data
  /\ UNCHANGED <<pidOf, opens>>

\* a rename whose error is swallowed
RRenameQuiet(h) ==
  /\ hd[h].pc = "r_rename"
  /\ LET t == tmpname(hd[h].path, pidOf[h])
     IN /\ dir' = IF exists(hd[h].path) /\ t # hd[h].path
                  THEN [dir EXCEPT ![t] = dir[hd[h].path], ![hd[h].path] = 0]
                  ELSE dir
        /\ hd' = Step(h, [hd[h] EXCEPT !.pc = "r_open"], 1)
  /\ data' = Collect(dir', hd', data)
  /\ UNCHANGED <<pidOf, opens>>

\* os.rename(filename, self._tmpname)
RRename(h) ==
  /\ hd[h].pc = "r_rename"
  /\ LET t == tmpname(hd[h].path, pidOf[h])
     IN IF exists(hd[h].path)
        THEN /\ dir' = IF t = hd[h].path THEN dir
                       ELSE [dir EXCEPT ![t] = dir[hd[h].path], ![hd[h].path] = 0]
             /\ hd' = Step(h, [hd[h] EXCEPT !.pc = "r_open",
                                 !.c0 = data[dir[hd[h].path]]], 1)
        ELSE /\ dir' = dir
             /\ hd' = Step(h, Raise(h, "ENOENT"), 1)
  /\ data' = Collect(dir', hd', data)
  /\ UNCHANGED <<pidOf, opens>>

\* self._infile = open(self._tmpname, 'rb')
ROpenTmp(h) ==
  /\ hd[h].pc = "r_open"
  /\ LET t == tmpname(hd[h].path, pidOf[h])
     IN hd' = Step(h, IF exists(t)
                      THEN [hd[h] EXCEPT !.pc = "open", !.ino = dir[t], !.off = 0]
                      ELSE Raise(h, "ENOENT"), 1)
  /\ UNCHANGED <<dir, data, pidOf, opens>>

\* read(nchars): the next nchars bytes, all that is left when nchars is
\* None or 0
read(h, nchars) ==
  LET content == data[hd[h].ino]
      upto == IF nchars = 0 THEN Len(content)
              ELSE IF hd[h].off + nchars < Len(content)
                   THEN hd[h].off + nchars ELSE Len(content)
  IN IF hd[h].off >= Len(content) THEN <<>>
     ELSE SubSeq(content, hd[h].off + 1, upto)

Read(h, nchars) ==
  /\ hd[h].pc = "open"
  /\ hd[h].kind = "r"
  /\ read(h, nchars) # <<>>
  /\ hd' = Step(h, [hd[h] EXCEPT !.off = @ + Len(read(h, nchars))], 1)
  /\ UNCHANGED <<dir, data, pidOf, opens>>

\* __exit__: self._infile.close()
RCloseFile(h) ==
  /\ hd[h].pc = "open"
  /\ hd[h].kind = "r"
  /\ hd' = Step(h, [hd[h] EXCEPT !.pc = "r_back", !.ino = 0], 1)
  /\ data' = Collect(dir, hd', data)
  /\ UNCHANGED <<dir, pidOf, opens>>

\* an __exit__ that leaves the file under its staging name
RCloseOnly(h) ==
  /\ hd[h].pc = "r_back"
  /\ hd' = Step(h, Closed(h), 1)
  /\ UNCHANGED <<dir, data, pidOf, opens>>

\* __exit__: os.rename(self._tmpname, self._filename)
RRenameBack(h) ==
  /\ hd[h].pc = "r_back"
  /\ LET t == tmpname(hd[h].path, pidOf[h])
     IN IF exists(t)
        THEN /\ dir' = IF t = hd[h].path THEN dir
                       ELSE [dir EXCEPT ![hd[h].path] = dir[t], ![t] = 0]
             /\ hd' = Step(h, Closed(h), 2)
        ELSE /\ dir' = dir
             /\ hd' = Step(h, Raise(h, "ENOENT"), 1)
  /\ data' = Collect(dir', hd', data)
  /\ UNCHANGED <<pidOf, opens>>

\* the object is dropped; the name can be bound to a new one
Discard(h) ==
  /\ hd[h].pc \in {"closed", "failed"}
  /\ hd' = [hd EXCEPT ![h] = NewHandle]
  /\ UNCHANGED <<dir, data, pidOf, opens>>

\* the process dies: the kernel closes its files, what its file objects had
\* buffered is lost, and none of its handles takes another step
Crashed(h) ==
  [hd[h] EXCEPT !.pc = "crashed", !.err = hd[h].pc, !.ino = 0, !.buf = <<>>]
Running(h) == hd[h].pc \notin {"new", "closed", "failed", "crashed"}
Crash(q) ==
  /\ \E h \in DOMAIN hd : pidOf[h] = q /\ Running(h)
  /\ hd' = [h \in DOMAIN hd |->
              IF pidOf[h] = q /\ Running(h) THEN Crashed(h) ELSE hd[h]]
  /\ data' = Collect(dir, hd', data)
  /\ UNCHANGED <<dir, pidOf, opens>>

\* no handle, an empty directory
AcidIdle ==
  /\ dir = [n \in AllNames |-> 0]
  /\ data = [i \in Inodes |-> <<>>]
  /\ hd = [h \in Handles |-> NewHandle]
  /\ pidOf = [h \in Handles |-> 1]
  /\ opens = 0

(***************************************************************************)
(* ACIDDir.glob                                                            *)
(***************************************************************************)
NoResult == <<"-">>
GlobIdle ==
  /\ listing = <<>> /\ gdir = <<>> /\ gmask = <<>> /\ gfiles = NoResult

\* '%s/%s' % (self._dir, name)
PathJoin(d, name) == d \o <<"/">> \o name

RECURSIVE fnmatch(_, _)
\* fnmatch.fnmatch(name, pat), for patterns of literal characters and '*'
fnmatch(name, pat) ==
  IF pat = <<>> THEN name = <<>>
  ELSE IF Head(pat) = "*"
       THEN \/ fnmatch(name, Tail(pat))
            \/ name # <<>> /\ fnmatch(Tail(name), pat)
       ELSE /\ name # <<>>
            /\ Head(name) = Head(pat)
            /\ fnmatch(Tail(name), Tail(pat))

\* glob.glob's rule for hidden files: a name that starts with '.' matches
\* only a pattern that starts with '.'
ishidden(s) == s # <<>> /\ Head(s) = "."
globmatch(name, pat) ==
  /\ fnmatch(name, pat)
  /\ ishidden(name) => ishidden(pat)

RECURSIVE globglob(_, _, _)
\* glob.glob('%s/%s' % (d, pat)) on a directory that lists names: the
\* matching entries as paths, in the order of the listing
globglob(names, d, pat) ==
  IF names = <<>> THEN <<>>
  ELSE (IF globmatch(Head(names), pat) THEN <<PathJoin(d, Head(names))>> ELSE <<>>)
         \o globglob(Tail(names), d, pat)

RECURSIVE GlobLoopSkip(_, _)
\* the loop with i advanced after a removal too
GlobLoopSkip(files, i) ==
  IF i < Len(files)
  THEN IF endswith(files[i + 1], AcidSuffix)
       THEN GlobLoopSkip(SubSeq(files, 1, i) \o SubSeq(files, i + 2, Len(files)), i + 1)
       ELSE GlobLoopSkip(files, i + 1)
  ELSE files

RECURSIVE GlobLoop(_, _)
\* the while loop of ACIDDir.glob, i counting from 0 as in the code
GlobLoop(files, i) ==
  IF i < Len(files)
  THEN IF endswith(files[i + 1], AcidSuffix)
       THEN GlobLoop(SubSeq(files, 1, i) \o SubSeq(files, i + 2, Len(files)), i)
       ELSE GlobLoop(files, i + 1)
  ELSE files

GlobFilterSkip(files) == GlobLoopSkip(files, 0)
GlobFilter(files) == GlobLoop(files, 0)

\* ACIDDir(d).glob(mask) on a directory that lists names
ACIDDirGlob(names, d, pat) == GlobFilter(globglob(names, d, pat))

\* names a directory may hold: published files, staged files, a file that
\* is called 'acid', a hidden file and its staged file
GlobNames ==
  {<<"f">>, <<"g">>, tmpname(<<"f">>, 1), tmpname(<<"g">>, 2), AcidSuffix,
   <<"a", "c", "i">>, <<".", "f">>, tmpname(<<".", "f">>, 3)}
GlobDirs == {<<"t">>, <<"t", "/">> \o AcidSuffix}

\* the name under its directory of a path glob.glob returned
RECURSIVE BaseName(_)
BaseName(path) ==
  IF path = <<>> THEN <<>>
  ELSE IF \E k \in 1..Len(path) : path[k] = "/"
       THEN BaseName(Tail(path))
       ELSE path

\* os.unlink(path) of an existing file, in a directory d: name -> inode
unlink(d, path) == [d EXCEPT ![BaseName(path)] = 0]

RECURSIVE CleanupLoop(_, _)
\* for f in files: if f.endswith('acid'): os.unlink(f)
CleanupLoop(d, files) ==
  IF files = <<>> THEN d
  ELSE CleanupLoop(IF endswith(Head(files), AcidSuffix)
                   THEN unlink(d, Head(files))
                   ELSE d,
                   Tail(files))

\* ACIDDir(gd).cleanup() on a directory d that lists names: the directory
\* after it
ACIDDirCleanup(d, names, gd) == CleanupLoop(d, globglob(names, gd, <<"*">>))
GlobMasks == {<<"*">>, <<"f", "*">>, <<"*", "d">>, <<".", "*">>}

(***************************************************************************)
(* RotLog                                                                  *)
(***************************************************************************)
\* the highest i of the rotation loop, range(9, 0, -1)
ShiftTop == 9

\* self._logname, '%s/%s' % (basedir, basename)
logname == <<"l">>
\* '%s-%d' % (self._logname, i); the live log for i = 0
LogName(i) == IF i = 0 THEN logname ELSE logname \o <<"-">> \o FormatInt(i)
\* the names the rotation or a versions argument can name
LogIndexes == 0..(ShiftTop + 3)
LogNames == {LogName(i) : i \in LogIndexes}

\* a file: the construction that created it (gen, read by the properties
\* only) and its text
NoFile == [gen |-> 0, text |-> <<"-">>]
lexists(name) == lfs[name] # NoFile

NoLog ==
  [pc |-> "none", i |-> 0, verbose |-> FALSE, buf |-> <<>>, status |-> 0,
   call |-> <<>>]
RotIdle ==
  /\ lfs = [n \in LogNames |-> NoFile]
  /\ rl = NoLog
  /\ con = [stdout |-> <<>>, stderr |-> <<>>]
  /\ before = [n \in LogNames |-> NoFile]
  /\ runs = 0 /\ emits = 0
  /\ cfg = [versions |-> 0, maxruns |-> 0, maxemits |-> 0]

\* RotLog(versions=cfg.versions, verbose=verb), up to the rotation loop.
\* The versions argument is not read by the code.
Construct(verb) ==
  /\ rl.pc \in {"none", "closed", "exited"}
  /\ runs < cfg.maxruns
  /\ runs' = runs + 1
  /\ before' = lfs
  /\ rl' = [NoLog EXCEPT !.pc = "shift", !.i = ShiftTop, !.verbose = verb]
  /\ UNCHANGED <<lfs, con, emits, cfg>>

\* os.path.exists(thisfile) is false: next i
ShiftSkip ==
  /\ rl.pc = "shift" /\ rl.i >= 1
  /\ ~lexists(LogName(rl.i))
  /\ rl' = [rl EXCEPT !.i = @ - 1]
  /\ UNCHANGED <<lfs, con, before, runs, emits, cfg>>

\* the rotation with os.unlink(thisfile)
ShiftUnlinkThis ==
  /\ rl.pc = "shift" /\ rl.i >= 1
  /\ lexists(LogName(rl.i)) /\ lexists(LogName(rl.i + 1))
  /\ lfs' = [lfs EXCEPT ![LogName(rl.i)] = NoFile]
  /\ rl' = [rl EXCEPT !.pc = "shift", !.i = @ - 1]
  /\ UNCHANGED <<con, before, runs, emits, cfg>>

\* thisfile and prevfile exist: os.unlink(prevfile)
ShiftUnlink ==
  /\ rl.pc = "shift" /\ rl.i >= 1
  /\ lexists(LogName(rl.i)) /\ lexists(LogName(rl.i + 1))
  /\ lfs' = [lfs EXCEPT ![LogName(rl.i + 1)] = NoFile]
  /\ rl' = [rl EXCEPT !.pc = "rename"]
  /\ UNCHANGED <<con, before, runs, emits, cfg>>

\* os.rename(thisfile, prevfile)
ShiftRename ==
  /\ rl.i >= 1
  /\ \/ rl.pc = "rename"
     \/ rl.pc = "shift" /\ lexists(LogName(rl.i)) /\ ~lexists(LogName(rl.i + 1))
  /\ lfs' = [lfs EXCEPT ![LogName(rl.i + 1)] = lfs[LogName(rl.i)],
                        ![LogName(rl.i)] = NoFile]
  /\ rl' = [rl EXCEPT !.pc = "shift", !.i = @ - 1]
  /\ UNCHANGED <<con, before, runs, emits, cfg>>

\* a construction that leaves the live log where it is
LiveRenameNone ==
  /\ rl.pc = "shift" /\ rl.i = 0
  /\ rl' = [rl EXCEPT !.pc = "open"]
  /\ UNCHANGED <<lfs, con, before, runs, emits, cfg>>

\* after the loop: the live log, when it exists, is renamed to <file>-1
LiveRename ==
  /\ rl.pc = "shift" /\ rl.i = 0
  /\ lfs' = IF lexists(logname)
            THEN [lfs EXCEPT ![LogName(1)] = lfs[logname], ![logname] = NoFile]
            ELSE lfs
  /\ rl' = [rl EXCEPT !.pc = "open"]
  /\ UNCHANGED <<con, before, runs, emits, cfg>>

\* self._logfile = open(self._logname, 'w'); self._verbose = verbose
OpenLog ==
  /\ rl.pc = "open"
  /\ lfs' = [lfs EXCEPT ![logname] = [gen |-> runs, text |-> <<>>]]
  /\ rl' = [rl EXCEPT !.pc = "ready"]
  /\ UNCHANGED <<con, before, runs, emits, cfg>>

\* verbose(verbosity)
Verbose(v) ==
  /\ rl.pc = "ready"
  /\ rl.verbose # v
  /\ rl' = [rl EXCEPT !.verbose = v, !.call = <<"verbose">>]
  /\ UNCHANGED <<lfs, con, before, runs, emits, cfg>>

\* the messages, fmt % args done; one of them has two lines
Msgs == {<<"m">>, <<"m", "\n", "n">>}
\* time.strftime(...): what the clock gives
Timestamp == <<"TS">>

\* outputstr = tag + ' ' + msg + '\n'
outputstr(tag, msg) == <<tag, " ">> \o msg \o <<"\n">>

\* the last method called on the object and its message (read by the
\* properties only)
Called(r, name, msg) == [r EXCEPT !.call = <<name>> \o msg]
\* _output(stdoutfile, tag, msg): the object and the console after it
OutputRl(tag, msg) ==
  [rl EXCEPT !.buf = @ \o Timestamp \o <<" ">> \o outputstr(tag, msg)]
OutputCon(stream, tag, msg) ==
  [con EXCEPT ![stream] = @ \o outputstr(tag, msg)]

\* a call of debug, info, warn or fatal is counted
Emit ==
  /\ rl.pc = "ready"
  /\ emits < cfg.maxemits
  /\ emits' = emits + 1

\* debug that ignores the verbose flag
debugAlways(msg) ==
  /\ Emit
  /\ rl' = Called(OutputRl("DEBUG", msg), "debug", msg)
  /\ con' = OutputCon("stdout", "DEBUG", msg)
  /\ UNCHANGED <<lfs, before, runs, cfg>>

\* debug(fmt, *args)
debug(msg) ==
  /\ Emit
  /\ IF rl.verbose
     THEN /\ rl' = Called(OutputRl("DEBUG", msg), "debug", msg)
          /\ con' = OutputCon("stdout", "DEBUG", msg)
     ELSE /\ rl' = Called(rl, "debug", msg)
          /\ con' = con
  /\ UNCHANGED <<lfs, before, runs, cfg>>

\* info(fmt, *args)
info(msg) ==
  /\ Emit
  /\ rl' = Called(OutputRl("INFO", msg), "info", msg)
  /\ con' = OutputCon("stdout", "INFO", msg)
  /\ UNCHANGED <<lfs, before, runs, cfg>>

\* warn(fmt, *args)
warn(msg) ==
  /\ Emit
  /\ rl' = Called(OutputRl("WARN", msg), "warn", msg)
  /\ con' = OutputCon("stderr", "WARN", msg)
  /\ UNCHANGED <<lfs, before, runs, cfg>>

\* the buffered text reaches the live log when the file object is closed
FlushLog(r) == [lfs EXCEPT ![logname].text = @ \o r.buf]

\* fatal that returns to its caller
fatalReturns(msg) ==
  /\ Emit
  /\ con' = OutputCon("stderr", "FATAL", msg)
  /\ lfs' = lfs
  /\ rl' = Called(OutputRl("FATAL", msg), "fatal", msg)
  /\ UNCHANGED <<before, runs, cfg>>

\* fatal(fmt, *args): _output, then sys.exit(1); the interpreter closes the
\* log file as it exits
fatal(msg) ==
  /\ Emit
  /\ con' = OutputCon("stderr", "FATAL", msg)
  /\ lfs' = FlushLog(OutputRl("FATAL", msg))
  /\ rl' = [Called(OutputRl("FATAL", msg), "fatal", msg)
              EXCEPT !.pc = "exited", !.buf = <<>>, !.status = 1]
  /\ UNCHANGED <<before, runs, cfg>>

\* __exit__: self._logfile.close()
Exit ==
  /\ rl.pc = "ready"
  /\ lfs' = FlushLog(rl)
  /\ rl' = [rl EXCEPT !.pc = "closed", !.buf = <<>>, !.call = <<"exit">>]
  /\ UNCHANGED <<con, before, runs, emits, cfg>>

(***************************************************************************)
(* The size-triggered sink (RotatingLogSink with maxSizeBytes).  RotLog of *)
(* rotlog.py rotates at construction only; the sink that rotates on size   *)
(* is modelled from its description: after each write to the live file, if *)
(* maxSizeBytes is set and the size has reached it, close, shift the       *)
(* versions, rename the live file to version 1 and reopen an empty file.   *)
(* A byte of the model is one element of a text.                           *)
(***************************************************************************)
\* the versions the shift can name
SinkIndexes == 0..(MaxVersions + 1)

\* no sink configured
NoSink == [pc |-> "none", max |-> 0, versions |-> 0, last |-> <<>>, n |-> 0]
SinkIdle ==
  /\ sfs = [i \in SinkIndexes |-> NoFile]
  /\ sk = NoSink

\* the file copy of a message: '<timestamp> <LEVEL> <message>\n'
SinkLine(tag, msg) == Timestamp \o <<" ", tag, " ">> \o msg \o <<"\n">>

\* the rotation test with "exceeded" only
SinkFullLate(size, max) == max > 0 /\ size > max

\* maxSizeBytes is set and the size has reached or exceeded it
SinkFull(size, max) == max > 0 /\ size >= max

RECURSIVE SinkShift(_, _)
\* for i down to 1: if version i exists, delete version i+1 if present and
\* rename version i to version i+1
SinkShift(fs, i) ==
  IF i < 1 THEN fs
  ELSE SinkShift(IF fs[i] # NoFile
                 THEN [fs EXCEPT ![i + 1] = fs[i], ![i] = NoFile]
                 ELSE fs,
                 i - 1)

\* the rotation: shift from versionCount - 1 down, rename the live file to
\* version 1, reopen a fresh empty live file
SinkRotated(fs, versions, gen) ==
  LET shifted == SinkShift(fs, versions - 1)
  IN [shifted EXCEPT ![1] = shifted[0], ![0] = [gen |-> gen, text |-> <<>>]]

\* the configuration call: opens the live file
SinkConfigure ==
  /\ sk.pc = "none"
  /\ sfs' = [sfs EXCEPT ![0] = [gen |-> 1, text |-> <<>>]]
  /\ sk' = [sk EXCEPT !.pc = "ready"]

\* an emit: the write of the message to the live file
SinkWrite(tag, msg) ==
  /\ sk.pc = "ready"
  /\ sk.n < MaxSinkEmits
  /\ sfs' = [sfs EXCEPT ![0].text = @ \o SinkLine(tag, msg)]
  /\ sk' = [sk EXCEPT !.pc = "written", !.last = SinkLine(tag, msg), !.n = @ + 1]

\* an emit, after the write: the size test and the rotation
SinkCheck ==
  /\ sk.pc = "written"
  /\ sfs' = IF SinkFull(Len(sfs[0].text), sk.max)
            THEN SinkRotated(sfs, sk.versions, sfs[0].gen + 1)
            ELSE sfs
  /\ sk' = [sk EXCEPT !.pc = "ready"]

\* One sink in a directory with no log files, any threshold and version count
InitSink ==
  /\ sfs = [i \in SinkIndexes |-> NoFile]
  /\ \E m \in 0..MaxSize, v \in 0..MaxVersions :
       sk = [NoSink EXCEPT !.max = m, !.versions = v]
  /\ AcidIdle /\ GlobIdle /\ RotIdle

NextSink ==
  \/ SinkConfigure /\ UNCHANGED <<acidVars, globVars, rotVars>>
  \/ (\E t \in {"INFO", "WARN"}, m \in Msgs : SinkWrite(t, m))
       /\ UNCHANGED <<acidVars, globVars, rotVars>>
  \/ SinkCheck /\ UNCHANGED <<acidVars, globVars, rotVars>>

SpecSink == InitSink /\ [][NextSink]_vars

\* the versions arguments of the model
VersionsArgs == {3, 10, 11}

\* Rotation: constructions on one log, from a directory with no log files
InitRot ==
  /\ lfs = [n \in LogNames |-> NoFile]
  /\ rl = NoLog
  /\ con = [stdout |-> <<>>, stderr |-> <<>>]
  /\ before = [n \in LogNames |-> NoFile]
  /\ runs = 0 /\ emits = 0
  /\ \E v \in VersionsArgs :
       cfg = [versions |-> v, maxruns |-> MaxRuns, maxemits |-> MaxRotEmits]
  /\ AcidIdle /\ GlobIdle /\ SinkIdle

NextRot ==
  \/ Construct(FALSE) /\ UNCHANGED <<acidVars, globVars, sinkVars>>
  \/ ShiftSkip /\ UNCHANGED <<acidVars, globVars, sinkVars>>
  \/ ShiftUnlink /\ UNCHANGED <<acidVars, globVars, sinkVars>>
  \/ ShiftRename /\ UNCHANGED <<acidVars, globVars, sinkVars>>
  \/ LiveRename /\ UNCHANGED <<acidVars, globVars, sinkVars>>
  \/ OpenLog /\ UNCHANGED <<acidVars, globVars, sinkVars>>
  \/ (\E m \in Msgs : info(m)) /\ UNCHANGED <<acidVars, globVars, sinkVars>>
  \/ Exit /\ UNCHANGED <<acidVars, globVars, sinkVars>>

SpecRot == InitRot /\ [][NextRot]_vars

\* the process dies inside the constructor, between two of its calls
RotCrash ==
  /\ rl.pc \in {"shift", "rename", "open"}
  /\ rl' = [rl EXCEPT !.pc = "exited", !.call = <<"crash">>]
  /\ UNCHANGED <<lfs, con, before, runs, emits, cfg>>

\* the instances that have left the files of the directory
PastRuns == ShiftTop + 2

\* Rotation that can be cut short: the directory holds any of the files
\* earlier instances have left, <file>-i from an earlier instance than
\* <file>-(i-1), with gaps where rotations were cut short
InitRotCrash ==
  /\ \E present \in SUBSET (0..(ShiftTop + 1)) :
       lfs = [n \in LogNames |->
                IF \E i \in present : n = LogName(i)
                THEN [gen |-> PastRuns - (CHOOSE i \in present : n = LogName(i)),
                      text |-> <<>>]
                ELSE NoFile]
  /\ rl = NoLog
  /\ con = [stdout |-> <<>>, stderr |-> <<>>]
  /\ before = [n \in LogNames |-> NoFile]
  /\ runs = PastRuns /\ emits = 0
  /\ \E v \in {3, 10} :
       cfg = [versions |-> v, maxruns |-> PastRuns + MaxCrashRuns, maxemits |-> 0]
  /\ AcidIdle /\ GlobIdle /\ SinkIdle

NextRotCrash ==
  \/ Construct(FALSE) /\ UNCHANGED <<acidVars, globVars, sinkVars>>
  \/ ShiftSkip /\ UNCHANGED <<acidVars, globVars, sinkVars>>
  \/ ShiftUnlink /\ UNCHANGED <<acidVars, globVars, sinkVars>>
  \/ ShiftRename /\ UNCHANGED <<acidVars, globVars, sinkVars>>
  \/ LiveRename /\ UNCHANGED <<acidVars, globVars, sinkVars>>
  \/ OpenLog /\ UNCHANGED <<acidVars, globVars, sinkVars>>
  \/ RotCrash /\ UNCHANGED <<acidVars, globVars, sinkVars>>
  \/ Exit /\ UNCHANGED <<acidVars, globVars, sinkVars>>

SpecRotCrash == InitRotCrash /\ [][NextRotCrash]_vars

\* Logging: a few constructions, any calls on the object
InitLog ==
  /\ lfs = [n \in LogNames |-> NoFile]
  /\ rl = NoLog
  /\ con = [stdout |-> <<>>, stderr |-> <<>>]
  /\ before = [n \in LogNames |-> NoFile]
  /\ runs = 0 /\ emits = 0
  /\ cfg = [versions |-> 10, maxruns |-> MaxLogRuns, maxemits |-> MaxEmits]
  /\ AcidIdle /\ GlobIdle /\ SinkIdle

NextLog ==
  \/ (\E v \in BOOLEAN : Construct(v)) /\ UNCHANGED <<acidVars, globVars, sinkVars>>
  \/ ShiftSkip /\ UNCHANGED <<acidVars, globVars, sinkVars>>
  \/ ShiftRename /\ UNCHANGED <<acidVars, globVars, sinkVars>>
  \/ LiveRename /\ UNCHANGED <<acidVars, globVars, sinkVars>>
  \/ OpenLog /\ UNCHANGED <<acidVars, globVars, sinkVars>>
  \/ (\E v \in BOOLEAN : Verbose(v)) /\ UNCHANGED <<acidVars, globVars, sinkVars>>
  \/ (\E m \in Msgs : debug(m)) /\ UNCHANGED <<acidVars, globVars, sinkVars>>
  \/ (\E m \in Msgs : info(m)) /\ UNCHANGED <<acidVars, globVars, sinkVars>>
  \/ (\E m \in Msgs : warn(m)) /\ UNCHANGED <<acidVars, globVars, sinkVars>>
  \/ (\E m \in Msgs : fatal(m)) /\ UNCHANGED <<acidVars, globVars, sinkVars>>
  \/ Exit /\ UNCHANGED <<acidVars, globVars, sinkVars>>

SpecLog == InitLog /\ [][NextLog]_vars

(***************************************************************************)
(* Handles of any processes on a shared directory                          *)
(***************************************************************************)
\* a directory in which each path is missing or holds its old content,
\* and no handle is open
InitDir(present) ==
  /\ dir = [n \in AllNames |->
              IF n \in present
              THEN Cardinality({k \in 1..Len(PathSeq) :
                                  /\ PathSeq[k] \in present
                                  /\ \E j \in k..Len(PathSeq) : PathSeq[j] = n})
              ELSE 0]
  /\ data = [i \in Inodes |-> IF i <= Cardinality(present) THEN OldContent ELSE <<>>]

Init ==
  /\ \E present \in SUBSET Paths : InitDir(present)
  /\ hd = [h \in Handles |-> NewHandle]
  /\ pidOf \in {f \in [Handles -> {1, 2}] : f["h1"] = 1}
  /\ opens = 0
  /\ GlobIdle
  /\ RotIdle
  /\ SinkIdle

Next ==
  \/ \E h \in DOMAIN hd, p \in Paths : WExists(h, p) /\ UNCHANGED <<globVars, rotVars, sinkVars>>
  \/ \E h \in DOMAIN hd : WUnlink(h) /\ UNCHANGED <<globVars, rotVars, sinkVars>>
  \/ \E h \in DOMAIN hd : WOpenTmp(h) /\ UNCHANGED <<globVars, rotVars, sinkVars>>
  \/ \E h \in DOMAIN hd, b \in Bytes : Write(h, b) /\ UNCHANGED <<globVars, rotVars, sinkVars>>
  \/ \E h \in DOMAIN hd : WCloseFile(h) /\ UNCHANGED <<globVars, rotVars, sinkVars>>
  \/ \E h \in DOMAIN hd : WRename(h) /\ UNCHANGED <<globVars, rotVars, sinkVars>>
  \/ \E h \in DOMAIN hd, p \in Paths : RExists(h, p) /\ UNCHANGED <<globVars, rotVars, sinkVars>>
  \/ \E h \in DOMAIN hd : RForce(h) /\ UNCHANGED <<globVars, rotVars, sinkVars>>
  \/ \E h \in DOMAIN hd : RRename(h) /\ UNCHANGED <<globVars, rotVars, sinkVars>>
  \/ \E h \in DOMAIN hd : ROpenTmp(h) /\ UNCHANGED <<globVars, rotVars, sinkVars>>
  \/ \E h \in DOMAIN hd, n \in {0, 1} : Read(h, n) /\ UNCHANGED <<globVars, rotVars, sinkVars>>
  \/ \E h \in DOMAIN hd : RCloseFile(h) /\ UNCHANGED <<globVars, rotVars, sinkVars>>
  \/ \E h \in DOMAIN hd : RRenameBack(h) /\ UNCHANGED <<globVars, rotVars, sinkVars>>
  \/ \E h \in DOMAIN hd : Discard(h) /\ UNCHANGED <<globVars, rotVars, sinkVars>>

Spec == Init /\ [][Next]_vars

(***************************************************************************)
(* Handles of processes that can crash                                     *)
(***************************************************************************)
ProcessStep == Next

\* as Init, after a first handle has been constructed, closed and dropped
InitLater ==
  /\ \E present \in SUBSET Paths : InitDir(present)
  /\ hd = [h \in Handles |-> NewHandle]
  /\ pidOf \in {f \in [Handles -> {1, 2}] : f["h1"] = 1}
  /\ opens = 1
  /\ GlobIdle
  /\ RotIdle
  /\ SinkIdle

NextCrash ==
  \/ ProcessStep
  \/ \E q \in Pids : Crash(q) /\ UNCHANGED <<globVars, rotVars, sinkVars>>

SpecCrash == InitLater /\ [][NextCrash]_vars

(***************************************************************************)
(* Handles that are all closed in the end                                  *)
(***************************************************************************)
\* the next call of the code of handle h, when it is inside its constructor
\* or its __exit__, and the start of its __exit__ when it is open
Progress(h) ==
  \/ WUnlink(h) \/ WOpenTmp(h) \/ WCloseFile(h) \/ WRename(h)
  \/ RForce(h) \/ RRename(h) \/ ROpenTmp(h) \/ RCloseFile(h) \/ RRenameBack(h)

\* no process dies or stops, and every with block ends
SpecLive ==
  /\ InitLater
  /\ [][Next]_vars
  /\ \A h \in Handles :
       WF_vars(Progress(h) /\ UNCHANGED <<globVars, rotVars, sinkVars>>)

(***************************************************************************)
(* Readers only: one ACIDReadFile per process, all on the same path        *)
(***************************************************************************)
\* the processes, each with its reader
ReaderPid == [r1 |-> 1, r2 |-> 2, r3 |-> 3]
Readers == DOMAIN ReaderPid

InitReaders ==
  /\ \E present \in SUBSET Paths : InitDir(present)
  /\ hd = [h \in Readers |-> NewHandle]
  /\ pidOf = ReaderPid
  /\ opens = 0
  /\ GlobIdle
  /\ RotIdle
  /\ SinkIdle

NextReaders ==
  \/ \E h \in DOMAIN hd, p \in Paths : RExists(h, p) /\ UNCHANGED <<globVars, rotVars, sinkVars>>
  \/ \E h \in DOMAIN hd : RForce(h) /\ UNCHANGED <<globVars, rotVars, sinkVars>>
  \/ \E h \in DOMAIN hd : RRename(h) /\ UNCHANGED <<globVars, rotVars, sinkVars>>
  \/ \E h \in DOMAIN hd : ROpenTmp(h) /\ UNCHANGED <<globVars, rotVars, sinkVars>>
  \/ \E h \in DOMAIN hd, n \in {0, 1} : Read(h, n) /\ UNCHANGED <<globVars, rotVars, sinkVars>>
  \/ \E h \in DOMAIN hd : RCloseFile(h) /\ UNCHANGED <<globVars, rotVars, sinkVars>>
  \/ \E h \in DOMAIN hd : RRenameBack(h) /\ UNCHANGED <<globVars, rotVars, sinkVars>>
  \/ \E h \in DOMAIN hd : Discard(h) /\ UNCHANGED <<globVars, rotVars, sinkVars>>

SpecReaders == InitReaders /\ [][NextReaders]_vars

(***************************************************************************)
(* ACIDDir.glob on any listing                                            *)
(***************************************************************************)
RECURSIVE SeqsOver(_, _)
\* the sequences of at most n different elements of S
SeqsOver(S, n) ==
  IF n = 0 THEN {<<>>}
  ELSE LET shorter == SeqsOver(S, n - 1)
       IN shorter \cup {q \o <<x>> : q \in shorter, x \in S}

NoRepeat(q) == \A a, b \in 1..Len(q) : q[a] = q[b] => a = b

InitGlob ==
  /\ listing \in {q \in SeqsOver(GlobNames, MaxFiles) : NoRepeat(q)}
  /\ gdir \in GlobDirs
  /\ gmask \in GlobMasks
  /\ gfiles = NoResult
  /\ AcidIdle /\ RotIdle /\ SinkIdle

\* files = ACIDDir(gdir).glob(gmask)
GlobCall ==
  /\ gfiles = NoResult
  /\ gfiles' = ACIDDirGlob(listing, gdir, gmask)
  /\ UNCHANGED <<listing, gdir, gmask, acidVars, rotVars, sinkVars>>

NextGlob == GlobCall

SpecGlob == InitGlob /\ [][NextGlob]_vars

(***************************************************************************)
(* ACIDDir.cleanup on any directory                                       *)
(***************************************************************************)
\* the content of the file with inode i
FileContent(i) == OldContent \o FormatInt(i)

\* A directory of files, the k-th of the listing with inode k; no handle is
\* open on it
InitClean ==
  /\ listing \in {q \in SeqsOver(GlobNames, MaxFiles) : NoRepeat(q)}
  /\ gdir \in GlobDirs
  /\ gmask = <<>>
  /\ gfiles = NoResult
  /\ dir = [n \in GlobNames |->
             IF \E k \in 1..Len(listing) : listing[k] = n
             THEN CHOOSE k \in 1..Len(listing) : listing[k] = n
             ELSE 0]
  /\ data = [i \in 1..Len(listing) |-> FileContent(i)]
  /\ hd = [h \in Handles |-> NewHandle]
  /\ pidOf = [h \in Handles |-> 1]
  /\ opens = 0
  /\ RotIdle /\ SinkIdle

\* ACIDDir(gdir).cleanup(); gfiles keeps the files the loop went through
CleanupCall ==
  /\ gfiles = NoResult
  /\ gfiles' = globglob(listing, gdir, <<"*">>)
  /\ dir' = ACIDDirCleanup(dir, listing, gdir)
  /\ data' = [i \in DOMAIN data |->
               IF \E n \in DOMAIN dir : dir'[n] = i THEN data[i] ELSE <<>>]
  /\ listing' = SelectSeq(listing, LAMBDA n : dir'[n] # 0)
  /\ UNCHANGED <<gdir, gmask, hd, pidOf, opens, rotVars, sinkVars>>

NextClean == CleanupCall

SpecClean == InitClean /\ [][NextClean]_vars

(***************************************************************************)
(* ACIDDir.glob on a directory in which a file is being written or read    *)
(***************************************************************************)
\* the directory of the paths, ACIDDir._dir
WorkDir == <<"t">>
\* files of the directory that no handle of the model is opened on: g, and
\* a file that is called 'acid'
OtherSeq == << <<"g">>, AcidSuffix >>
\* the names files are published under
FinalSeq == PathSeq \o OtherSeq
FinalNames == {FinalSeq[k] : k \in 1..Len(FinalSeq)}

\* the orders in which the file system can list the names of the set
Listings(names) ==
  {q \in SeqsOver(names, Cardinality(names)) :
     NoRepeat(q) /\ Len(q) = Cardinality(names)}

\* the names in the directory
DirNames == {n \in DOMAIN dir : dir[n] # 0}

\* One process with one handle at a time on a path of a directory that
\* holds any of the files, each with an inode of its own and its old content
InitDirGlob ==
  /\ \E present \in SUBSET FinalNames :
       /\ dir = [n \in AllNames \cup FinalNames |->
                   IF n \in present
                   THEN Cardinality({k \in 1..Len(FinalSeq) :
                                       /\ FinalSeq[k] \in present
                                       /\ \E j \in k..Len(FinalSeq) : FinalSeq[j] = n})
                   ELSE 0]
       /\ data = [i \in Inodes |-> IF i <= Cardinality(present) THEN OldContent ELSE <<>>]
  /\ hd = [h \in {"h1"} |-> NewHandle]
  /\ pidOf = [h \in {"h1"} |-> 1]
  /\ opens = 0
  /\ listing = <<>> /\ gdir = WorkDir /\ gmask \in {<<"*">>, <<"f", "*">>}
  /\ gfiles = NoResult
  /\ RotIdle /\ SinkIdle

\* files = ACIDDir(gdir).glob(gmask), the file system listing the names in
\* any order
DirGlobCall ==
  /\ gfiles = NoResult
  /\ listing' \in Listings(DirNames)
  /\ gfiles' = ACIDDirGlob(listing', gdir, gmask)
  /\ UNCHANGED <<gdir, gmask, acidVars, rotVars, sinkVars>>

\* the caller is done with the list
DirGlobDone ==
  /\ gfiles # NoResult
  /\ gfiles' = NoResult /\ listing' = <<>>
  /\ UNCHANGED <<gdir, gmask, acidVars, rotVars, sinkVars>>

\* a step of a handle, between two calls of glob
HandleStep ==
  /\ gfiles = NoResult
  /\ Next

NextDirGlob ==
  \/ HandleStep
  \/ DirGlobCall
  \/ DirGlobDone

SpecDirGlob == InitDirGlob /\ [][NextDirGlob]_vars

(***************************************************************************)
(* Properties of ACIDWriteFile and ACIDReadFile                            *)
(***************************************************************************)
\* handle h is a writer whose constructor returned and whose __exit__ has
\* not completed, in the state hs of the handles
WriterOpen(hs, h) == hs[h].kind = "w" /\ hs[h].pc \in {"open", "w_rename"}
ReaderOpen(hs, h) == hs[h].kind = "r" /\ hs[h].pc \in {"open", "r_back"}
\* h takes the last step of __exit__ (the rename), which returns or raises
WriterCloses(h) == hd[h].pc = "w_rename" /\ hd'[h].pc # "w_rename"
ReaderCloses(h) == hd[h].pc = "r_back" /\ hd'[h].pc # "r_back"

\* C1 as stated: while a writer for f is open f does not exist, and f exists
\* in the state right after the writer's close.
C1_Original ==
  [][\A h \in DOMAIN hd :
       /\ WriterOpen(hd', h) => dir'[hd'[h].path] = 0
       /\ WriterCloses(h) => dir'[hd[h].path] # 0]_vars

\* C1, amended: while a writer for f is open, and as long as no other handle
\* for f has been closed (has renamed its staging file to f) since the
\* writer's open began, f does not exist; and the close of such a writer
\* succeeds and leaves f existing.
C1_AbsentUntilClose ==
  [][\A h \in DOMAIN hd :
       /\ WriterOpen(hd', h) /\ hd'[h].lvl < 2 => dir'[hd'[h].path] = 0
       /\ WriterCloses(h) /\ hd[h].lvl < 2
            => hd'[h].pc = "closed" /\ dir'[hd[h].path] # 0]_vars

\* a writer is open and has written, another handle has acted on its path
\* meanwhile, and the path does not exist
C1_Witness ==
  \E h \in DOMAIN hd :
    /\ WriterOpen(hd, h) /\ hd[h].wrote # <<>> /\ hd[h].lvl = 1
    /\ dir[hd[h].path] = 0

\* C2: a writer that is opened, written to and closed with no other
\* operation on its path in between leaves the path holding exactly the
\* bytes written, in the order written.
C2_ContentIsWritten ==
  [][\A h \in DOMAIN hd :
       WriterCloses(h) /\ hd[h].lvl = 0
         => /\ hd'[h].pc = "closed"
            /\ dir'[hd[h].path] # 0
            /\ data'[dir'[hd[h].path]] = hd[h].wrote]_vars

\* the only handle constructed so far is a closed writer, and its path
\* holds the two different bytes it wrote, in order
C2_Witness ==
  \E h \in DOMAIN hd :
    /\ hd[h].kind = "w" /\ hd[h].pc = "closed" /\ opens = 1
    /\ dir[hd[h].path] # 0
    /\ data[dir[hd[h].path]] = <<"x", "y">>

\* handle h, not yet constructed or in its constructor, takes a step of
\* ACIDReadFile.__init__ on path p
ReadOpenStep(h, p) ==
  /\ hd[h].pc \in {"new", "r_force", "r_rename"}
  /\ hd'[h].kind = "r" /\ hd'[h].path = p
  /\ hd'[h].pc # hd[h].pc
\* the step found the path missing: the exists test failed, or a call raised
NotFound(h) ==
  \/ hd[h].pc = "new" /\ hd'[h].pc = "r_force"
  \/ hd'[h].pc = "failed" /\ hd'[h].err = "ENOENT" /\ dir' = dir

\* C3 as stated: while any writer or reader for f is open, every step of a
\* fresh ACIDReadFile(f) open finds f missing.
C3_Original ==
  [][\A h, g \in DOMAIN hd :
       /\ h # g
       /\ WriterOpen(hd, g) \/ ReaderOpen(hd, g)
       /\ ReadOpenStep(h, hd[g].path)
       => NotFound(h)]_vars

\* C3, amended: while a writer or reader for f is open, and as long as no
\* other handle for f has been closed since its open began, every step of
\* a fresh ACIDReadFile(f) open finds f missing: the open raises ENOENT and
\* changes nothing in the directory.
C3_FreshOpenFails ==
  [][\A h, g \in DOMAIN hd :
       /\ h # g
       /\ WriterOpen(hd, g) \/ ReaderOpen(hd, g)
       /\ hd[g].lvl < 2
       /\ ReadOpenStep(h, hd[g].path)
       => NotFound(h)]_vars

\* a reader's open has raised on the path of a handle that is open
C3_Witness ==
  \E h, g \in DOMAIN hd :
    /\ h # g
    /\ WriterOpen(hd, g) \/ ReaderOpen(hd, g)
    /\ hd[g].lvl < 2
    /\ hd[h].kind = "r" /\ hd[h].pc = "failed" /\ hd[h].path = hd[g].path

\* C4: the close of a reader leaves its path existing, with the content the
\* path had when the reader acquired it.
C4_RoundTrip ==
  [][\A h \in DOMAIN hd :
       ReaderCloses(h)
         => /\ hd'[h].pc = "closed"
            /\ dir'[hd[h].path] # 0
            /\ data'[dir'[hd[h].path]] = hd[h].c0]_vars


\* h has completed its rename of the path and has not yet closed
Holds(hs, h) == hs[h].kind = "r" /\ hs[h].pc \in {"r_open", "open", "r_back"}

\* C5: of the processes that open ACIDReadFile(f) with no writer about, at
\* most one holds f in any state, and a step of another process's open
\* taken while one holds f finds f missing (the exists test fails or the
\* call raises ENOENT).
C5_OneHolder ==
  [][/\ \A h, g \in DOMAIN hd :
          Holds(hd', h) /\ Holds(hd', g) /\ hd'[h].path = hd'[g].path => h = g
     /\ \A h, g \in DOMAIN hd :
          h # g /\ Holds(hd, g) /\ ReadOpenStep(h, hd[g].path) => NotFound(h)]_vars

\* the race: one process holds f, another has passed the exists test and
\* is about to rename, a third has been refused
C5_Witness ==
  \E h, g, k \in DOMAIN hd :
    /\ Holds(hd, h) /\ hd[g].pc = "r_rename" /\ hd[g].path = hd[h].path
    /\ hd[k].pc = "failed" /\ hd[k].path = hd[h].path

(***************************************************************************)
(* Properties of ACIDDir.glob                                             *)
(***************************************************************************)
\* the entries of the listing that match the mask and do not end with
\* 'acid', as paths, in the order of the listing
Stable(name) == globmatch(name, gmask) /\ ~endswith(name, AcidSuffix)
StablePaths ==
  LET kept == SelectSeq(listing, Stable)
  IN [k \in 1..Len(kept) |-> PathJoin(gdir, kept[k])]

\* C6: glob returns exactly the mask-matching entries whose names do not end
\* with 'acid', in the order of the listing, and no name it returns ends
\* with 'acid'.
C6_GlobFilters ==
  gfiles # NoResult =>
    /\ gfiles = StablePaths
    /\ \A k \in 1..Len(gfiles) : ~endswith(BaseName(gfiles[k]), AcidSuffix)

\* glob has returned a published name from a listing that holds two staged
\* names in a row
C6_Witness ==
  /\ gfiles # NoResult /\ Len(gfiles) = 1
  /\ \E k \in 1..(Len(listing) - 1) :
       /\ globmatch(listing[k], gmask) /\ endswith(listing[k], AcidSuffix)
       /\ globmatch(listing[k + 1], gmask) /\ endswith(listing[k + 1], AcidSuffix)

C7_AtMostVersions ==
  /\ Cardinality({i \in LogIndexes : i >= 1 /\ lexists(LogName(i))}) <= cfg.versions
  /\ \A i \in LogIndexes : i > cfg.versions => ~lexists(LogName(i))

\* the constructor has returned and no call has been made on the object
Constructed == rl.pc = "ready" /\ rl.call = <<>> /\ rl.buf = <<>>

\* C8: after a construction the live log exists and is empty, what was the
\* live log is <file>-1, and what was <file>-i is <file>-(i+1), for every i
\* from 1 to versions - 1.
C8_ShiftedByOne ==
  Constructed =>
    /\ lexists(logname) /\ lfs[logname].text = <<>>
    /\ before[logname] # NoFile => lfs[LogName(1)] = before[logname]
    /\ \A i \in 1..(cfg.versions - 1) :
         before[LogName(i)] # NoFile => lfs[LogName(i + 1)] = before[LogName(i)]

\* what has been written to the log file object: the text of the live log
\* and the text still in the buffer
Logged(fs, r) == fs[logname].text \o r.buf

\* the step is a call debug(msg)
DebugCalled(msg) == emits' = emits + 1 /\ rl'.call = <<"debug">> \o msg

\* C10: a debug() call made while the verbose flag is false writes nothing to
\* the log file and nothing to the console; made while the flag is true it
\* appends one DEBUG line with the message to the log file and writes the
\* line to stdout.
C10_DebugGated ==
  [][\A m \in Msgs :
       DebugCalled(m) =>
         IF rl.verbose
         THEN /\ Logged(lfs', rl')
                   = Logged(lfs, rl) \o <<"TS", " ", "DEBUG", " ">> \o m \o <<"\n">>
              /\ con'.stdout = con.stdout \o <<"DEBUG", " ">> \o m \o <<"\n">>
              /\ con'.stderr = con.stderr
         ELSE /\ Logged(lfs', rl') = Logged(lfs, rl)
              /\ con' = con]_vars

\* two debug calls were made, the first with the flag off and the second,
\* after verbose(True), with the flag on: one line is logged
C10_Witness ==
  /\ rl.pc = "ready" /\ rl.verbose /\ emits = 2
  /\ rl.call = <<"debug", "m">>
  /\ Logged(lfs, rl) = <<"TS", " ", "DEBUG", " ", "m", "\n">>
  /\ con.stdout = <<"DEBUG", " ", "m", "\n">>

\* the step is a call of the method on the message
MethodCalled(name, msg) == emits' = emits + 1 /\ rl'.call = <<name>> \o msg

\* the process of the RotLog object has terminated
Terminated(r) == r.pc = "exited"

\* C11: a fatal() call writes its FATAL line to stderr and to the log file
\* and terminates the process with exit status 1; no emit follows it in that
\* process; an info() or warn() call writes its line to the log file and to
\* its console stream, a debug() call does when the verbose flag is on, and
\* none of the three terminates the process.
C11_FatalTerminates ==
  [][/\ \A m \in Msgs :
          /\ MethodCalled("fatal", m) =>
               /\ con'.stderr = con.stderr \o <<"FATAL", " ">> \o m \o <<"\n">>
               /\ con'.stdout = con.stdout
               /\ Logged(lfs', rl')
                    = Logged(lfs, rl) \o <<"TS", " ", "FATAL", " ">> \o m \o <<"\n">>
               /\ Terminated(rl') /\ rl'.status = 1
          /\ MethodCalled("info", m) =>
               /\ Logged(lfs', rl')
                    = Logged(lfs, rl) \o <<"TS", " ", "INFO", " ">> \o m \o <<"\n">>
               /\ ~Terminated(rl') /\ rl'.status = 0
          /\ MethodCalled("warn", m) =>
               /\ Logged(lfs', rl')
                    = Logged(lfs, rl) \o <<"TS", " ", "WARN", " ">> \o m \o <<"\n">>
               /\ ~Terminated(rl') /\ rl'.status = 0
          /\ MethodCalled("debug", m) =>
               /\ rl.verbose => Logged(lfs', rl') # Logged(lfs, rl)
               /\ ~Terminated(rl') /\ rl'.status = 0
     /\ Terminated(rl) => emits' = emits /\ (Terminated(rl') => rl' = rl)]_vars

\* fatal() was called after an info(), with calls left in the run: the
\* process has exited with status 1 and both lines are in the live log
C11_Witness ==
  /\ Terminated(rl) /\ rl.status = 1 /\ emits = 2
  /\ rl.call = <<"fatal", "m">>
  /\ con.stderr = <<"FATAL", " ", "m", "\n">>
  /\ lfs[logname].text
       = <<"TS", " ", "INFO", " ", "m", "\n", "TS", " ", "FATAL", " ", "m", "\n">>

(***************************************************************************)
(* Properties of ACIDDir.cleanup                                          *)
(***************************************************************************)
\* the step is a call of cleanup()
CleanupCalled == gfiles = NoResult /\ gfiles' # NoResult

\* C12: cleanup() removes every entry whose name ends with 'acid' and leaves
\* every other entry, name and content, as it was; after it no entry of the
\* directory ends with 'acid'.
C12_CleanupRemovesStaged ==
  [][CleanupCalled =>
       /\ \A n \in DOMAIN dir :
            IF endswith(n, AcidSuffix)
            THEN dir'[n] = 0
            ELSE /\ dir'[n] = dir[n]
                 /\ dir[n] # 0 => data'[dir[n]] = data[dir[n]]
       /\ \A k \in 1..Len(listing') : ~endswith(listing'[k], AcidSuffix)]_vars

(***************************************************************************)
(* More properties of ACIDWriteFile and ACIDReadFile                       *)
(***************************************************************************)
\* the handle is open: its constructor has returned, its __exit__ has not
HandleOpen(hs, h) == WriterOpen(hs, h) \/ ReaderOpen(hs, h)

\* self._tmpname of a constructed handle
StagingPath(h) == tmpname(hd[h].path, pidOf[h])

\* C13: no two handles that are open at the same time have the same staging
\* path.
C13_OwnStagingPath ==
  \A h, g \in DOMAIN hd :
    h # g /\ HandleOpen(hd, h) /\ HandleOpen(hd, g) => StagingPath(h) # StagingPath(g)

(***************************************************************************)
(* Properties of ACIDDir.glob beside open handles                          *)
(***************************************************************************)
\* the file is fully published: it is in the directory under a final name
Published(n) == n \in FinalNames /\ n \in DOMAIN dir /\ dir[n] # 0

\* the paths in a list
Elements(q) == {q[k] : k \in 1..Len(q)}

\* C14: whatever the handles are doing, glob(mask) returns every fully
\* published file of the directory that matches the mask.
C14_PublishedListed ==
  gfiles # NoResult =>
    \A n \in FinalNames :
      Published(n) /\ globmatch(n, gmask) => PathJoin(gdir, n) \in Elements(gfiles)

\* the process of writer h crashed after the open of h had returned and
\* before its close began
CrashedOpen(h) == hd[h].pc = "crashed" /\ hd[h].kind = "w" /\ hd[h].err = "open"

\* what the claim says of the directory after the crash of writer h: the
\* staging file is there and f is not
OrphanLeft(h) ==
  /\ exists(StagingPath(h))
  /\ ~exists(hd[h].path)

\* the unlink of the open of writer h leaves no name for the file f was
OldGone(h) ==
  hd[h].pc = "w_unlink" /\ hd'[h].pc = "w_open" =>
    \A n \in DOMAIN dir : dir'[n] # dir[hd[h].path]

\* C15 as stated: after the crash of a process whose writer for f was open,
\* while no other writer has published f, the staging file exists and f does
\* not exist.
C15_Original ==
  \A h \in DOMAIN hd : CrashedOpen(h) /\ hd[h].lvl # 3 => OrphanLeft(h)

\* C15, with no other handle for f closed: after the crash of a process
\* whose writer for f was open, while no other handle has renamed its staging
\* file to f since the open began, the staging file exists and f does not
\* exist; the file f was before the open has no name left once the open has
\* unlinked it.
C15_OrphanStays ==
  /\ [](\A h \in DOMAIN hd : CrashedOpen(h) /\ hd[h].lvl < 2 => OrphanLeft(h))
  /\ [][\A h \in DOMAIN hd : OldGone(h)]_vars

\* a writer that had written crashed, and a handle of another process then
\* failed to open f
C15_Witness ==
  \E h, g \in DOMAIN hd :
    /\ CrashedOpen(h) /\ hd[h].lvl = 1 /\ hd[h].wrote # <<>>
    /\ pidOf[g] # pidOf[h] /\ hd[g].pc = "failed" /\ hd[g].path = hd[h].path

(***************************************************************************)
(* More properties of RotLog                                               *)
(***************************************************************************)
\* the historical files
Historical == {i \in LogIndexes : i >= 1 /\ lexists(LogName(i))}

\* C16: of two historical files the one with the lower number was written by
\* the later instance, and once an instance is constructed <file>-1 is the
\* log of the instance constructed before it.
C16_OrderedByAge ==
  /\ \A i, j \in Historical : i < j => lfs[LogName(i)].gen > lfs[LogName(j)].gen
  /\ Constructed /\ runs >= 2 =>
       /\ 1 \in Historical
       /\ lfs[LogName(1)].gen = runs - 1

\* the fourth instance is constructed: three historical files, and <file>-1
\* holds what the third instance logged
C16_Witness ==
  /\ Constructed /\ runs = 4
  /\ Historical = {1, 2, 3}
  /\ lfs[LogName(1)].gen = 3 /\ lfs[LogName(1)].text # <<>>

\* the file named n is in the directory before the step and under no name
\* after it
Deleted(n) ==
  /\ lexists(n)
  /\ \A m \in LogNames : lfs'[m] = NoFile \/ lfs'[m].gen # lfs[n].gen

\* the step gives the name m to the file that was named n
Renamed(n, m) == n # m /\ lexists(n) /\ lfs'[m] = lfs[n] /\ lfs'[n] = NoFile

\* C17: a step of a rotation deletes no file but the historical file with the
\* highest number, and renames a file only to a name that no file has.
C17_OnlyTopDeleted ==
  [][/\ \A n \in LogNames :
          Deleted(n) => \E i \in Historical :
                          n = LogName(i) /\ \A j \in Historical : j <= i
     /\ \A n, m \in LogNames : Renamed(n, m) => ~lexists(m)]_vars

\* a rotation stopped after it had unlinked the top file, in a directory
\* that had a gap: the file below the top is still to be renamed
C17_Witness ==
  /\ rl.pc = "exited" /\ rl.call = <<"crash">> /\ rl.i = ShiftTop
  /\ ~lexists(LogName(ShiftTop + 1)) /\ before[LogName(ShiftTop + 1)] # NoFile
  /\ lexists(LogName(ShiftTop))
  /\ \E i \in 1..(ShiftTop - 1) : ~lexists(LogName(i)) /\ lexists(LogName(i + 1))

\* C18: when a writer of f closes after a writer of f of another process has
\* closed, the close succeeds, f holds exactly what the closing writer wrote
\* and neither writer's staging file is left.
C18_LastCloserWins ==
  [][\A h, g \in DOMAIN hd :
       /\ h # g /\ pidOf[h] # pidOf[g]
       /\ WriterCloses(h)
       /\ hd[g].kind = "w" /\ hd[g].pc = "closed" /\ hd[g].path = hd[h].path
       => /\ hd'[h].pc = "closed"
          /\ dir'[hd[h].path] # 0
          /\ data'[dir'[hd[h].path]] = hd[h].wrote
          /\ dir'[StagingPath(h)] = 0
          /\ dir'[StagingPath(g)] = 0]_vars

\* two writers of different processes were open on f together and have both
\* closed; f holds a payload of two bytes
C18_Witness ==
  \E h, g \in DOMAIN hd :
    /\ pidOf[h] # pidOf[g] /\ opens = 2
    /\ hd[h].kind = "w" /\ hd[h].pc = "closed"
    /\ hd[g].kind = "w" /\ hd[g].pc = "closed" /\ hd[g].path = hd[h].path
    /\ exists(hd[h].path) /\ Len(data[dir[hd[h].path]]) = 2

\* the directory holds no entry with the staging suffix
NoStaged(d) == \A n \in DOMAIN d : endswith(n, AcidSuffix) => d[n] = 0

\* every handle is unconstructed, closed or failed
Quiet == \A h \in DOMAIN hd : ~Running(h)

\* C19: when no process dies and every opened handle is closed, the
\* directory eventually holds no staged entry and keeps none from then on;
\* and once every handle is closed and the directory holds no staged entry,
\* a step that does not construct a handle adds none.
C19_EventuallyClean ==
  /\ <>[](Quiet /\ NoStaged(dir))
  /\ [][Quiet /\ NoStaged(dir) /\ opens' = opens => NoStaged(dir')]_vars

\* a writer and a reader of different processes have staged and closed: the
\* directory holds f and no staged entry
C19_Witness ==
  \E h, g \in DOMAIN hd :
    /\ pidOf[h] # pidOf[g]
    /\ hd[h].kind = "w" /\ hd[h].pc = "closed"
    /\ hd[g].kind = "r" /\ hd[g].pc = "closed"
    /\ NoStaged(dir) /\ \E p \in Paths : exists(p)

====
